---------------------------- MODULE Spec2Model ----------------------------
(***************************************************************************)
(* pressureVessel.py: ExecutePressureVesselCase builds a pressure-vessel   *)
(* model, meshes it, gives every element its own material, section and     *)
(* section assignment from getMaterialProperties, and submits the job.     *)
(*                                                                         *)
(* Python floats are IEEE-754 binary64 values.  They are modelled as       *)
(* records [s, m, e] standing for (-1)^s * m * 2^e, with m a 53-bit        *)
(* natural number (2^52 <= m < 2^53) or zero, and every operation rounds   *)
(* its exact result to nearest, ties to even.  Natural numbers wider than  *)
(* the model checker's integers are little-endian sequences of 15-bit      *)
(* limbs.  Exponent overflow, underflow and subnormals are outside the     *)
(* modelled range (the inputs are metres, years and pascals).              *)
(***************************************************************************)
EXTENDS Integers, Sequences, FiniteSets

(***************************************************************************)
(* Natural numbers of any width.                                           *)
(***************************************************************************)
Base == 32768

RECURSIVE Pow2(_)
Pow2(n) == IF n = 0 THEN 1 ELSE 2 * Pow2(n - 1)

Limb(a, i) == IF i <= Len(a) THEN a[i] ELSE 0

RECURSIVE BTrim(_)
BTrim(a) ==
  IF a = <<>> THEN a
  ELSE IF a[Len(a)] = 0 THEN BTrim(SubSeq(a, 1, Len(a) - 1)) ELSE a

RECURSIVE BAddFrom(_, _, _, _)
BAddFrom(a, b, i, c) ==
  IF i > Len(a) /\ i > Len(b)
  THEN (IF c = 0 THEN <<>> ELSE <<c>>)
  ELSE LET x == Limb(a, i) + Limb(b, i) + c
       IN  <<x % Base>> \o BAddFrom(a, b, i + 1, x \div Base)

BAdd(a, b) == BAddFrom(a, b, 1, 0)

RECURSIVE BSubFrom(_, _, _, _)
BSubFrom(a, b, i, br) ==
  IF i > Len(a) THEN <<>>
  ELSE LET x == a[i] - Limb(b, i) - br
       IN  IF x < 0 THEN <<x + Base>> \o BSubFrom(a, b, i + 1, 1)
           ELSE <<x>> \o BSubFrom(a, b, i + 1, 0)

\* a - b for a >= b
BSub(a, b) == BTrim(BSubFrom(a, b, 1, 0))

RECURSIVE BCmpFrom(_, _, _)
BCmpFrom(a, b, i) ==
  IF i = 0 THEN 0
  ELSE IF a[i] # b[i] THEN (IF a[i] < b[i] THEN -1 ELSE 1)
  ELSE BCmpFrom(a, b, i - 1)

\* -1, 0, 1 as a < b, a = b, a > b
BCmp(a, b) ==
  IF Len(a) # Len(b) THEN (IF Len(a) < Len(b) THEN -1 ELSE 1)
  ELSE BCmpFrom(a, b, Len(a))

RECURSIVE BMulSmallFrom(_, _, _, _)
BMulSmallFrom(a, k, i, c) ==
  IF i > Len(a) THEN (IF c = 0 THEN <<>> ELSE <<c>>)
  ELSE LET x == a[i] * k + c
       IN  <<x % Base>> \o BMulSmallFrom(a, k, i + 1, x \div Base)

\* a * k for 0 <= k < Base
BMulSmall(a, k) == IF k = 0 THEN <<>> ELSE BMulSmallFrom(a, k, 1, 0)

BShiftLimbs(a, q) == IF a = <<>> THEN a ELSE [i \in 1..q |-> 0] \o a

RECURSIVE BMulFrom(_, _, _)
BMulFrom(a, b, i) ==
  IF i > Len(b) THEN <<>>
  ELSE BAdd(BShiftLimbs(BMulSmall(a, b[i]), i - 1), BMulFrom(a, b, i + 1))

BMul(a, b) == BMulFrom(a, b, 1)

\* a * 2^n
BShl(a, n) == BShiftLimbs(BMulSmall(a, Pow2(n % 15)), n \div 15)

RECURSIVE BDivSmallFrom(_, _, _, _)
BDivSmallFrom(a, k, i, rem) ==
  IF i = 0 THEN <<>>
  ELSE LET x == rem * Base + a[i]
       IN  BDivSmallFrom(a, k, i - 1, x % k) \o <<x \div k>>

\* floor(a / 2^n)
BShr(a, n) ==
  LET q == n \div 15
      hi == IF q >= Len(a) THEN <<>> ELSE SubSeq(a, q + 1, Len(a))
  IN  BTrim(BDivSmallFrom(hi, Pow2(n % 15), Len(hi), 0))

RECURSIVE SmallBitLen(_)
SmallBitLen(x) == IF x = 0 THEN 0 ELSE 1 + SmallBitLen(x \div 2)

BBitLen(a) == IF a = <<>> THEN 0 ELSE 15 * (Len(a) - 1) + SmallBitLen(a[Len(a)])

\* bit i of a, bit 0 the lowest
Bit(a, i) == (Limb(a, i \div 15 + 1) \div Pow2(i % 15)) % 2

BIsOdd(a) == a # <<>> /\ a[1] % 2 = 1

\* a mod 2^n = 0
BLowBitsZero(a, n) ==
  /\ \A i \in 1..(n \div 15) : Limb(a, i) = 0
  /\ Limb(a, n \div 15 + 1) % Pow2(n % 15) = 0

RECURSIVE BFromInt(_)
BFromInt(n) == IF n = 0 THEN <<>> ELSE <<n % Base>> \o BFromInt(n \div Base)

(***************************************************************************)
(* binary64 values.                                                        *)
(***************************************************************************)
MantBits == 53

FZero == [s |-> 0, m |-> <<>>, e |-> 0]

IsZero(a) == a.m = <<>>

\* The float nearest to n * 2^e (n > 0, or n = 0 and not sticky).  sticky says
\* that the exact value lies strictly between n * 2^e and (n + 1) * 2^e.
Round(s, n, e, sticky) ==
  LET len == BBitLen(n)
  IN  IF n = <<>> THEN [s |-> s, m |-> <<>>, e |-> 0]
      ELSE IF len <= MantBits
      THEN [s |-> s, m |-> BShl(n, MantBits - len), e |-> e - (MantBits - len)]
      ELSE LET sh == len - MantBits
               q == BShr(n, sh)
               exact == BLowBitsZero(n, sh - 1) /\ ~sticky
               up == Bit(n, sh - 1) = 1 /\ (~exact \/ BIsOdd(q))
               r == IF up THEN BAdd(q, <<1>>) ELSE q
           IN  IF BBitLen(r) > MantBits
               THEN [s |-> s, m |-> BShr(r, 1), e |-> e + sh + 1]
               ELSE [s |-> s, m |-> r, e |-> e + sh]

\* int -> float
FromInt(n) == IF n < 0 THEN Round(1, BFromInt(-n), 0, FALSE)
              ELSE Round(0, BFromInt(n), 0, FALSE)

FNeg(a) == [a EXCEPT !.s = 1 - a.s]

\* -1, 0, 1 as |a| < |b|, |a| = |b|, |a| > |b|
MagCmp(a, b) ==
  IF IsZero(a) \/ IsZero(b)
  THEN (IF IsZero(a) /\ IsZero(b) THEN 0 ELSE IF IsZero(a) THEN -1 ELSE 1)
  ELSE IF a.e # b.e THEN (IF a.e < b.e THEN -1 ELSE 1)
  ELSE BCmp(a.m, b.m)

\* -1, 0, 1 as a < b, a == b, a > b
FCmp(a, b) ==
  IF IsZero(a) /\ IsZero(b) THEN 0
  ELSE IF IsZero(a) THEN (IF b.s = 1 THEN 1 ELSE -1)
  ELSE IF IsZero(b) THEN (IF a.s = 1 THEN -1 ELSE 1)
  ELSE IF a.s # b.s THEN (IF a.s = 1 THEN -1 ELSE 1)
  ELSE IF a.s = 0 THEN MagCmp(a, b) ELSE MagCmp(b, a)

FEq(a, b) == FCmp(a, b) = 0
FLt(a, b) == FCmp(a, b) < 0
FLe(a, b) == FCmp(a, b) <= 0
FGt(a, b) == FCmp(a, b) > 0
FGe(a, b) == FCmp(a, b) >= 0

\* |hi| + |lo| or |hi| - |lo| with |hi| >= |lo| > 0, carrying the sign s
MagAddSub(s, hi, lo, sub) ==
  LET d == hi.e - lo.e
  IN  IF d > MantBits + 3
      THEN \* lo is below the rounding position of hi: it only decides the direction
           IF sub THEN Round(s, BSub(BShl(hi.m, 3), <<1>>), hi.e - 3, TRUE)
           ELSE Round(s, BShl(hi.m, 3), hi.e - 3, TRUE)
      ELSE LET h == BShl(hi.m, d)
           IN  IF sub THEN Round(s, BSub(h, lo.m), lo.e, FALSE)
               ELSE Round(s, BAdd(h, lo.m), lo.e, FALSE)

\* float + float
FAdd(a, b) ==
  IF IsZero(a) /\ IsZero(b) THEN (IF a.s = 1 /\ b.s = 1 THEN a ELSE FZero)
  ELSE IF IsZero(a) THEN b
  ELSE IF IsZero(b) THEN a
  ELSE LET c == MagCmp(a, b)
           hi == IF c >= 0 THEN a ELSE b
           lo == IF c >= 0 THEN b ELSE a
       IN  IF a.s = b.s THEN MagAddSub(hi.s, hi, lo, FALSE)
           ELSE IF c = 0 THEN FZero
           ELSE MagAddSub(hi.s, hi, lo, TRUE)

\* float - float
FSub(a, b) == FAdd(a, FNeg(b))

\* float * float
FMul(a, b) ==
  LET s == (a.s + b.s) % 2
  IN  IF IsZero(a) \/ IsZero(b) THEN [s |-> s, m |-> <<>>, e |-> 0]
      ELSE Round(s, BMul(a.m, b.m), a.e + b.e, FALSE)

RECURSIVE DivChunk(_, _, _, _)
\* k more quotient bits of r / d for r < d: <<the k bits, remainder>>
DivChunk(r, d, k, q) ==
  IF k = 0 THEN <<q, r>>
  ELSE LET r2 == BAdd(r, r)
       IN  IF BCmp(r2, d) >= 0 THEN DivChunk(BSub(r2, d), d, k - 1, 2 * q + 1)
           ELSE DivChunk(r2, d, k - 1, 2 * q)

RECURSIVE DivLimbs(_, _, _)
\* j more quotient limbs of r / d for r < d, the highest first: <<limbs, remainder>>
DivLimbs(r, d, j) ==
  IF j = 0 THEN <<<<>>, r>>
  ELSE LET c == DivChunk(r, d, 15, 0)
           rest == DivLimbs(c[2], d, j - 1)
       IN  <<rest[1] \o <<c[1]>>, rest[2]>>

\* float / float, b not zero (Python raises ZeroDivisionError before dividing)
FDiv(a, b) ==
  LET s == (a.s + b.s) % 2
  IN  IF IsZero(a) THEN [s |-> s, m |-> <<>>, e |-> 0]
      ELSE LET ge == BCmp(a.m, b.m) >= 0
               qr == DivLimbs(IF ge THEN BSub(a.m, b.m) ELSE a.m, b.m, 4)
               q == BTrim(qr[1] \o <<IF ge THEN 1 ELSE 0>>)
           IN  Round(s, q, a.e - b.e - 60, qr[2] # <<>>)

RECURSIVE SqrtChunk(_, _, _, _)
\* floor(sqrt(n)), one bit at a time: cnt bits from bit k down
SqrtChunk(n, r, k, cnt) ==
  IF cnt = 0 \/ k < 0 THEN r
  ELSE LET c == BAdd(r, BShl(<<1>>, k))
       IN  IF BCmp(BMul(c, c), n) <= 0 THEN SqrtChunk(n, c, k - 1, cnt - 1)
           ELSE SqrtChunk(n, r, k - 1, cnt - 1)

RECURSIVE SqrtLoop(_, _, _)
SqrtLoop(n, r, k) ==
  IF k < 0 \/ BCmp(r, n) > 0 THEN r ELSE SqrtLoop(n, SqrtChunk(n, r, k, 8), k - 8)

\* float ** .5 for a >= 0
FSqrt(a) ==
  IF IsZero(a) THEN a
  ELSE LET k == IF (a.e - (MantBits + 4)) % 2 = 0 THEN MantBits + 4
                ELSE MantBits + 5
           n == BShl(a.m, k)
           r == SqrtLoop(n, <<>>, (BBitLen(n) + 1) \div 2)
       IN  Round(0, r, (a.e - k) \div 2, BCmp(BMul(r, r), n) # 0)

(***************************************************************************)
(* math.log.  The library's logarithm is accurate to the last place; here  *)
(* it is computed from the leading 15 bits of the argument in 16-bit fixed *)
(* point, 2 * atanh((y - 1) / (y + 1)) + k * ln 2, which is accurate to    *)
(* about 1e-4.  Nothing below depends on more than that.                   *)
(***************************************************************************)
Ln2Fix == 45426

\* ln(x) * 2^16 for x > 0
LogFix(x) ==
  LET top == x.m[4] * 128 + x.m[3] \div 256
      z == ((top - 16384) * 65536) \div (top + 16384)
      z2 == (z * z) \div 65536
      z3 == (z * z2) \div 65536
      z5 == (z3 * z2) \div 65536
      z7 == (z5 * z2) \div 65536
  IN  2 * (z + z3 \div 3 + z5 \div 5 + z7 \div 7) + (x.e + 52) * Ln2Fix

\* log(x) for x > 0 (math.log raises ValueError otherwise)
Log(x) ==
  LET v == LogFix(x)
  IN  IF v < 0 THEN Round(1, BFromInt(-v), -16, FALSE)
      ELSE Round(0, BFromInt(v), -16, FALSE)

(***************************************************************************)
(* The float literals of pressureVessel.py, each the binary64 value that   *)
(* the literal denotes.                                                    *)
(***************************************************************************)
Dbl(m, e) == [s |-> 0, m |-> m, e |-> e]

Phi_reactor == Dbl(<<15616, 16674, 25489, 138>>, 8)       \* 1.25e18
F1_52 == Dbl(<<14418, 2621, 18350, 194>>, -52)            \* 1.52
F249_24 == Dbl(<<24904, 10485, 7864, 249>>, -45)          \* 249.24
F1em24 == Dbl(<<3751, 13137, 24330, 154>>, -132)          \* 1e-24
DpaMax == Dbl(<<0, 0, 0, 192>>, -51)                      \* 3.0
youngsModulus == Dbl(<<0, 27136, 21181, 194>>, -15)       \* 209E9
poissonsRatio == Dbl(<<13107, 26214, 19660, 153>>, -54)   \* 0.3
SigmaY0 == Dbl(<<0, 0, 1676, 143>>, -24)                  \* 300e6
F52_93 == Dbl(<<9175, 31457, 23592, 211>>, -47)           \* 52.93
F729_5 == Dbl(<<0, 0, 12288, 182>>, -43)                  \* 729.5
F1e6 == Dbl(<<0, 0, 4608, 244>>, -33)                     \* 1e6

\* 0.0, 0.4, 1.25, 3.0
dpa_table == <<FZero,
               Dbl(<<6554, 13107, 26214, 204>>, -54),
               Dbl(<<0, 0, 0, 160>>, -52),
               Dbl(<<0, 0, 0, 192>>, -51)>>

\* 500.0e6, 680.0e6, 760.0e6, 790.0e6
UT_table == <<Dbl(<<0, 0, 13716, 238>>, -24),
              Dbl(<<0, 0, 4084, 162>>, -23),
              Dbl(<<0, 0, 6492, 181>>, -23),
              Dbl(<<0, 0, 11491, 188>>, -23)>>

\* .48, .1, .06, .005
UE_table == <<Dbl(<<7864, 22282, 24903, 245>>, -54),
              Dbl(<<6554, 13107, 26214, 204>>, -56),
              Dbl(<<7864, 22282, 24903, 245>>, -57),
              Dbl(<<5243, 3932, 27525, 163>>, -60)>>

sigmaBar_d == FMul(F249_24, F1em24)

(***************************************************************************)
(* getMaterialProperties(element, part, sourceLocation, t)                 *)
(***************************************************************************)
RECURSIVE SumAxis(_, _, _, _)
\* sum([c[i] for c in coords]) over the first k node references: the sum starts
\* from the int 0 and adds the coordinates from left to right
SumAxis(conn, nodes, i, k) ==
  IF k = 0 THEN FZero
  ELSE FAdd(SumAxis(conn, nodes, i, k - 1), nodes[conn[k] + 1][i])

\* a variant that divides by the number of axes, not of node references
CentroidAxisByAxes(conn, nodes, i) ==
  FDiv(SumAxis(conn, nodes, i, Len(conn)), FromInt(3))

\* centroid[i] = sum([c[i] for c in coords]) / len(elementNodeLabels)
CentroidAxis(conn, nodes, i) ==
  FDiv(SumAxis(conn, nodes, i, Len(conn)), FromInt(Len(conn)))

\* x ** 2
Square(x) == FMul(x, x)

\* sum([(centroid[i]-sourceLocation[i])**2 for i in range(3)])**.5
Distance(centroid, sourceLocation) ==
  FSqrt(FAdd(FAdd(FAdd(FZero, Square(FSub(centroid[1], sourceLocation[1]))),
                  Square(FSub(centroid[2], sourceLocation[2]))),
             Square(FSub(centroid[3], sourceLocation[3]))))

\* a variant without the clamp of lines 53-54
ClampOff(dpa) == dpa

\* if dpa>3.0: dpa=3.0
Clamp(dpa) == IF FGt(dpa, DpaMax) THEN DpaMax ELSE dpa

RECURSIVE BracketSearch(_, _)
\* for i in range(len(dpa_table)): the code's i is i - 1 here.  The last turn of
\* the loop reads dpa_table[len(dpa_table)] when its first test holds.
BracketSearch(dpa, i) ==
  IF i > Len(dpa_table) THEN [exc |-> "UnboundLocalError", line |-> 77, bin |-> 0]
  ELSE IF FGe(dpa, dpa_table[i])
  THEN IF i + 1 > Len(dpa_table)
       THEN [exc |-> "IndexError", line |-> 73, bin |-> 0]
       ELSE IF FLe(dpa, dpa_table[i + 1])
       THEN [exc |-> "none", line |-> 74, bin |-> i]
       ELSE BracketSearch(dpa, i + 1)
  ELSE BracketSearch(dpa, i + 1)

\* table[interpBin]+x_interp*(table[interpBin+1]-table[interpBin])
Interpolate(table, bin, x) ==
  FAdd(table[bin], FMul(x, FSub(table[bin + 1], table[bin])))

\* The locals of a call that has not reached them.
NoLocals ==
  [exc |-> "none", line |-> 0, n |-> 0, centroid |-> <<FZero, FZero, FZero>>,
   distanceFromSource |-> FZero, dpaRaw |-> FZero, dpa |-> FZero,
   logCalls |-> 0, sigma_y |-> FZero, epsilon_y |-> FZero, interpBin |-> 0,
   x_interp |-> FZero, sigma_ut |-> FZero, epsilon_ut |-> FZero,
   elasticProperties |-> <<>>, plasticProperties |-> <<>>]

\* The call raises exception e at the given line.
Raise(l, e, line) == [l EXCEPT !.exc = e, !.line = line]

\* lines 37-44: the centroid of the element from its nodes
Locate(element, nodes) ==
  IF Len(element.connectivity) = 0
  THEN Raise(NoLocals, "ZeroDivisionError", 44)
  ELSE [NoLocals EXCEPT
          !.n = Len(element.connectivity),
          !.centroid = <<CentroidAxis(element.connectivity, nodes, 1),
                         CentroidAxis(element.connectivity, nodes, 2),
                         CentroidAxis(element.connectivity, nodes, 3)>>]

\* Phi_reactor*1.52**2/distanceFromSource**2 * t * sigmaBar_d
RawDose(d2, t) ==
  FMul(FMul(FDiv(FMul(Phi_reactor, Square(F1_52)), d2), FromInt(t)), sigmaBar_d)

\* lines 52-54, with distanceFromSource**2 not zero
Dose(l, d, raw) ==
  [l EXCEPT !.distanceFromSource = d, !.dpaRaw = raw, !.dpa = Clamp(raw)]

\* a variant whose division by zero saturates instead of raising
FluxSaturated(l, d, d2, t) ==
  IF IsZero(d2) THEN Dose(l, d, DpaMax) ELSE Dose(l, d, RawDose(d2, t))

\* line 49: the division raises when distanceFromSource**2 is zero
Flux(l, d, d2, t) ==
  IF IsZero(d2)
  THEN Raise([l EXCEPT !.distanceFromSource = d], "ZeroDivisionError", 49)
  ELSE Dose(l, d, RawDose(d2, t))

\* lines 47-54: the radiation at the centroid
Radiation(l, d, t) == Flux(l, d, Square(d), t)

EstimateRadiation(l, sourceLocation, t) ==
  IF l.exc # "none" THEN l
  ELSE Radiation(l, Distance(l.centroid, sourceLocation), t)

\* (52.93*log(dpa)+729.5)*1e6
YieldCorrelation(dpa) == FMul(FAdd(FMul(F52_93, Log(dpa)), F729_5), F1e6)

\* line 64: epsilon_y = sigma_y/youngsModulus
Yield(l, sigma_y, logCalls) ==
  [l EXCEPT !.sigma_y = sigma_y, !.epsilon_y = FDiv(sigma_y, youngsModulus),
            !.logCalls = logCalls]

\* a variant without the test of line 59: math.log(0.0) raises too
SetYieldAlwaysLog(l) ==
  IF l.exc # "none" THEN l
  ELSE IF FLe(l.dpa, FZero) THEN Raise([l EXCEPT !.logCalls = 1], "ValueError", 62)
  ELSE Yield(l, YieldCorrelation(l.dpa), 1)

\* a variant whose test of line 59 is dpa <= 0
SetYieldNonPositive(l) ==
  IF l.exc # "none" THEN l
  ELSE IF FLe(l.dpa, FZero) THEN Yield(l, SigmaY0, 0)
  ELSE Yield(l, YieldCorrelation(l.dpa), 1)

\* lines 59-64: math.log raises ValueError for a negative dose
SetYield(l) ==
  IF l.exc # "none" THEN l
  ELSE IF FEq(l.dpa, FZero) THEN Yield(l, SigmaY0, 0)
  ELSE IF FLt(l.dpa, FZero) THEN Raise([l EXCEPT !.logCalls = 1], "ValueError", 62)
  ELSE Yield(l, YieldCorrelation(l.dpa), 1)

\* lines 78-79
Ultimate(l, bin, x) ==
  [l EXCEPT !.interpBin = bin, !.x_interp = x,
            !.sigma_ut = Interpolate(UT_table, bin, x),
            !.epsilon_ut = Interpolate(UE_table, bin, x)]

\* line 77
Fraction(l, bin) ==
  Ultimate(l, bin, FDiv(FSub(l.dpa, dpa_table[bin]),
                        FSub(dpa_table[bin + 1], dpa_table[bin])))

\* lines 72-79: the bracket search may leave without interpBin
Bracket(l, found) ==
  IF found.exc # "none" THEN Raise(l, found.exc, found.line)
  ELSE Fraction(l, found.bin)

InterpolateUltimate(l) ==
  IF l.exc # "none" THEN l ELSE Bracket(l, BracketSearch(l.dpa, 1))

\* lines 81-84
Return(l) ==
  IF l.exc # "none" THEN l
  ELSE [l EXCEPT !.line = 84,
                 !.elasticProperties = <<youngsModulus, poissonsRatio>>,
                 !.plasticProperties =
                    <<<<l.sigma_y, FSub(l.epsilon_y, l.epsilon_y)>>,
                      <<l.sigma_ut, FSub(l.epsilon_ut, l.epsilon_y)>>>>]

\* The locals of the call when it returns (exc = "none", line = 84) or raises
\* (exc the exception, line where it is raised).
getMaterialProperties(element, nodes, sourceLocation, t) ==
  Return(InterpolateUltimate(SetYield(
    EstimateRadiation(Locate(element, nodes), sourceLocation, t))))

(***************************************************************************)
(* ExecutePressureVesselCase(modelName, t, pressure, sourceLocation,       *)
(* meshSize).  The geometry, the load and the boundary conditions do not   *)
(* reach the per-element loop and are left out; the mesh is the mesher's   *)
(* answer: node labels 1..8 on the corners of a cube of side 2 m, and up   *)
(* to MaxElems elements, labelled 1, 2, ... in order, each with one of the *)
(* connectivities of ConnPool (node references count from 0).              *)
(***************************************************************************)
MaxElems == 3

\* exposure times, in years
Times == {-60, 0, 60, 6000}

\* k / 2 as a float
Halves(k) == IF k = 0 THEN FZero ELSE Round(0, BFromInt(k), -1, FALSE)

Sources == {<<Halves(0), Halves(0), Halves(0)>>, <<Halves(1), Halves(1), Halves(1)>>}

\* node label -> coordinates, in half metres
CubeHalves == << <<0, 0, 0>>, <<4, 0, 0>>, <<0, 4, 0>>, <<0, 0, 4>>,
                 <<4, 4, 0>>, <<4, 0, 4>>, <<0, 4, 4>>, <<4, 4, 4>> >>

CubeNodes ==
  [k \in 1..Len(CubeHalves) |->
     <<Halves(CubeHalves[k][1]), Halves(CubeHalves[k][2]), Halves(CubeHalves[k][3])>>]

ConnPool == {<<0, 1, 2, 3>>, <<4, 5, 6, 7>>, <<1, 2, 4>>}

Meshes == UNION {[1..n -> ConnPool] : n \in 1..MaxElems}

VARIABLES t, sourceLocation, pc, nodes, els, i, materials, sections,
          sectionAssignments, job, exc, locals

vars == <<t, sourceLocation, pc, nodes, els, i, materials, sections,
          sectionAssignments, job, exc, locals>>

Digits == <<"0", "1", "2", "3", "4", "5", "6", "7", "8", "9">>

RECURSIVE Str(_)
\* str(n) for n >= 0
Str(n) == IF n < 10 THEN <<Digits[n + 1]>>
          ELSE Str(n \div 10) \o <<Digits[(n % 10) + 1]>>

\* a variant that names every material alike
MaterialNameShared(label) == <<"S", "t", "e", "e", "l">>

\* 'Steel'+str(e.label)
MaterialName(label) == <<"S", "t", "e", "e", "l">> \o Str(label)

\* 'pvSection'+str(e.label)
SectionName(label) == <<"p", "v", "S", "e", "c", "t", "i", "o", "n">> \o Str(label)

\* els.sequenceFromLabels(labels), as the set of the labels it holds
SequenceFromLabels(labels) ==
  {els[k].label : k \in {j \in 1..Len(els) : els[j].label \in labels}}

\* f with key k set to v (a repository keeps one object per name)
Put(f, k, v) == [x \in DOMAIN f \cup {k} |-> IF x = k THEN v ELSE f[x]]

\* a variant of the loop that stops after its first element
LoopFinishedEarly == i >= 1

\* the for loop has gone through every element
LoopFinished == i = Len(els)

Init ==
  /\ t \in Times
  /\ sourceLocation \in Sources
  /\ pc = "start"
  /\ nodes = <<>>
  /\ els = <<>>
  /\ i = 0
  /\ materials = <<>>
  /\ sections = <<>>
  /\ sectionAssignments = <<>>
  /\ job = "none"
  /\ exc = [type |-> "none", line |-> 0]
  /\ locals = NoLocals

\* the model, the part, the load and the mesh
BuildAndMesh ==
  /\ pc = "start"
  /\ \E mesh \in Meshes :
       els' = [k \in 1..Len(mesh) |-> [label |-> k, connectivity |-> mesh[k]]]
  /\ nodes' = CubeNodes
  /\ pc' = "loop"
  /\ UNCHANGED <<t, sourceLocation, i, materials, sections, sectionAssignments,
                 job, exc, locals>>

\* lines 218-227: the tables of the material, the section and its assignment
Assign(e, r) ==
  /\ materials' = Put(materials, MaterialName(e.label),
                      [elastic |-> <<r.elasticProperties>>,
                       plastic |-> r.plasticProperties])
  /\ sections' = Put(sections, SectionName(e.label),
                     [material |-> MaterialName(e.label)])
  /\ sectionAssignments' =
       Append(sectionAssignments,
              [region |-> SequenceFromLabels({e.label}),
               sectionName |-> SectionName(e.label)])
  /\ i' = i + 1
  /\ UNCHANGED <<pc, exc>>

\* a variant that catches the exception and goes on with the next element
AbortSkipped(e, r) ==
  /\ materials' = Put(materials, MaterialName(e.label),
                      [elastic |-> <<>>, plastic |-> <<>>])
  /\ i' = i + 1
  /\ UNCHANGED <<sections, sectionAssignments, pc, exc>>

\* the exception of getMaterialProperties leaves ExecutePressureVesselCase: the
\* material of line 215 stays as it was created
Abort(e, r) ==
  /\ materials' = Put(materials, MaterialName(e.label),
                      [elastic |-> <<>>, plastic |-> <<>>])
  /\ exc' = [type |-> r.exc, line |-> r.line]
  /\ pc' = "aborted"
  /\ UNCHANGED <<sections, sectionAssignments, i>>

\* lines 215-227 for element e, r the outcome of getMaterialProperties
Body(e, r) ==
  /\ locals' = r
  /\ IF r.exc = "none" THEN Assign(e, r) ELSE Abort(e, r)

\* one turn of the loop over the elements
SetMaterial ==
  /\ pc = "loop"
  /\ ~LoopFinished
  /\ Body(els[i + 1], getMaterialProperties(els[i + 1], nodes, sourceLocation, t))
  /\ UNCHANGED <<t, sourceLocation, nodes, els, job>>

\* myJob = mdb.Job(...)
CreateJob ==
  /\ pc = "loop"
  /\ LoopFinished
  /\ job' = "created"
  /\ pc' = "submit"
  /\ UNCHANGED <<t, sourceLocation, nodes, els, i, materials, sections,
                 sectionAssignments, exc, locals>>

\* myJob.submit()
Submit ==
  /\ pc = "submit"
  /\ job' = "submitted"
  /\ pc' = "wait"
  /\ UNCHANGED <<t, sourceLocation, nodes, els, i, materials, sections,
                 sectionAssignments, exc, locals>>

\* myJob.waitForCompletion()
WaitForCompletion ==
  /\ pc = "wait"
  /\ job' = "completed"
  /\ pc' = "odb"
  /\ UNCHANGED <<t, sourceLocation, nodes, els, i, materials, sections,
                 sectionAssignments, exc, locals>>

\* the output database is opened and displayed
OpenOdb ==
  /\ pc = "odb"
  /\ pc' = "done"
  /\ UNCHANGED <<t, sourceLocation, nodes, els, i, materials, sections,
                 sectionAssignments, job, exc, locals>>

Next ==
  \/ BuildAndMesh
  \/ SetMaterial
  \/ CreateJob
  \/ Submit
  \/ WaitForCompletion
  \/ OpenOdb

Spec == Init /\ [][Next]_vars

(***************************************************************************)
(* What the properties below speak of.                                     *)
(***************************************************************************)
\* getMaterialProperties has been called; locals are those of the last call
CallMade == locals.line # 0

\* the last call got past line 44 (every call does: no element is without nodes)
CentroidComputed == locals.line \in {49, 62, 73, 77, 84}

\* the last call got past line 54
DoseComputed == locals.line \in {62, 73, 77, 84}

\* the last call reached the bracket search of line 72
InterpolationReached == locals.line \in {73, 77, 84}

\* the last call returned
Returned == locals.exc = "none" /\ locals.line = 84

\* the element of the last call
Called == IF pc = "aborted" THEN els[i + 1] ELSE els[i]

\* the centroid of the last call is the source location: the distance is 0
AtSource == \A a \in 1..3 : FEq(locals.centroid[a], sourceLocation[a])

RECURSIVE HalfSum(_, _, _)
\* the exact sum, in half metres, of coordinate a of the nodes stored under
\* label n + 1 for the first k node references n, one term for each reference
HalfSum(conn, a, k) ==
  IF k = 0 THEN 0 ELSE HalfSum(conn, a, k - 1) + CubeHalves[conn[k] + 1][a]

AssignmentsOf(label) ==
  {a \in 1..Len(sectionAssignments) :
     sectionAssignments[a].sectionName = SectionName(label)}

\* element k has its material with both tables, its section and its assignment
Assigned(k) ==
  /\ MaterialName(els[k].label) \in DOMAIN materials
  /\ materials[MaterialName(els[k].label)].elastic # <<>>
  /\ materials[MaterialName(els[k].label)].plastic # <<>>
  /\ SectionName(els[k].label) \in DOMAIN sections
  /\ AssignmentsOf(els[k].label) # {}

\* the for loop of lines 212-227 is over
LoopDone == pc \in {"submit", "wait", "odb", "done"} \/ (pc = "loop" /\ LoopFinished)

\* the law of the unirradiated steel
Baseline ==
  /\ Returned
  /\ locals.dpa = FZero
  /\ locals.logCalls = 0
  /\ locals.sigma_y = SigmaY0
  /\ locals.elasticProperties = <<youngsModulus, poissonsRatio>>
  /\ locals.sigma_ut = UT_table[1]
  /\ locals.epsilon_ut = UE_table[1]
  /\ locals.plasticProperties[1] = <<SigmaY0, FZero>>
  /\ locals.plasticProperties[2] =
       <<UT_table[1], FSub(UE_table[1], FDiv(SigmaY0, youngsModulus))>>

(***************************************************************************)
(* C1: for a centroid at non-zero distance from the source and t >= 0 the  *)
(* dose is computed and equals min(raw dose, 3.0): the raw dose when that  *)
(* is at most 3.0, exactly 3.0 when it exceeds 3.0, and always in [0, 3].  *)
(***************************************************************************)
C1_DoseClamped ==
  (CallMade /\ t >= 0 /\ ~AtSource) =>
     /\ DoseComputed
     /\ locals.dpaRaw = RawDose(Square(locals.distanceFromSource), t)
     /\ FGe(locals.dpaRaw, FZero)
     /\ FGe(locals.dpa, FZero) /\ FLe(locals.dpa, DpaMax)
     /\ (FGt(locals.dpaRaw, DpaMax) => locals.dpa = DpaMax)
     /\ (FLe(locals.dpaRaw, DpaMax) => locals.dpa = locals.dpaRaw)

\* a raw dose above 3.0 has been clamped
C1_Witness ==
  /\ CallMade /\ t >= 0 /\ ~AtSource
  /\ FGt(locals.dpaRaw, DpaMax)
  /\ locals.dpa = DpaMax

(***************************************************************************)
(* C2: when the loop is over, every element has exactly one material, one  *)
(* section and one section assignment, each named from the element's label *)
(* and scoped to that element alone, and no two elements share a material  *)
(* or a section.                                                           *)
(***************************************************************************)
C2_OnePerElement ==
  LoopDone =>
     /\ \A k \in 1..Len(els) :
          /\ MaterialName(els[k].label) \in DOMAIN materials
          /\ SectionName(els[k].label) \in DOMAIN sections
          /\ sections[SectionName(els[k].label)].material = MaterialName(els[k].label)
          /\ Cardinality(AssignmentsOf(els[k].label)) = 1
          /\ \A a \in AssignmentsOf(els[k].label) :
               sectionAssignments[a].region = {els[k].label}
     /\ Cardinality(DOMAIN materials) = Len(els)
     /\ Cardinality(DOMAIN sections) = Len(els)
     /\ Len(sectionAssignments) = Len(els)
     /\ \A j, k \in 1..Len(els) :
          j # k => /\ MaterialName(els[j].label) # MaterialName(els[k].label)
                   /\ SectionName(els[j].label) # SectionName(els[k].label)

\* two elements with the same computed properties, each with its own material
C2_Witness ==
  /\ pc = "done"
  /\ \E j, k \in 1..Len(els) :
       /\ j # k
       /\ MaterialName(els[j].label) # MaterialName(els[k].label)
       /\ materials[MaterialName(els[j].label)] = materials[MaterialName(els[k].label)]

(***************************************************************************)
(* C3: the job is submitted only after every element has its material law, *)
(* its material, its section and its section assignment.                   *)
(***************************************************************************)
C3_SubmitAfterAll ==
  job \in {"submitted", "completed"} => \A k \in 1..Len(els) : Assigned(k)

\* a job submitted for a mesh of several elements
C3_Witness == job = "submitted" /\ Len(els) >= 2

(***************************************************************************)
(* C4: at distance 0 between centroid and source the call fails at the     *)
(* flux division, for every exposure time, and returns no material law.    *)
(***************************************************************************)
C4_DegenerateSource ==
  (CentroidComputed /\ AtSource) =>
     /\ locals.exc = "ZeroDivisionError" /\ locals.line = 49
     /\ locals.elasticProperties = <<>> /\ locals.plasticProperties = <<>>
     /\ pc = "aborted"
     /\ materials[MaterialName(Called.label)] = [elastic |-> <<>>, plastic |-> <<>>]

\* the scenario of the specification: 60 years, centroid on the source
C4_Witness ==
  CentroidComputed /\ AtSource /\ t = 60 /\ locals.exc = "ZeroDivisionError"

(***************************************************************************)
(* C5, as claimed: with t = 0 every centroid/source pair gives dose 0.0    *)
(* and the unirradiated baseline law.                                      *)
(***************************************************************************)
C5_AnyPair == (CallMade /\ t = 0) => Baseline

(***************************************************************************)
(* C5, amended: with t = 0 every centroid/source pair at non-zero distance *)
(* gives dose 0.0 and the baseline law: yield stress 300e6 with no         *)
(* logarithm, 209e9 and 0.3, ultimate stress and strain 500e6 and 0.48.    *)
(***************************************************************************)
C5_Baseline == (CallMade /\ t = 0 /\ ~AtSource) => Baseline

C5_Witness == CallMade /\ t = 0 /\ ~AtSource /\ Returned

(***************************************************************************)
(* C6, as claimed: for a dose equal to a breakpoint of the table the       *)
(* interpolated ultimate stress and strain are the tabulated ones exactly. *)
(***************************************************************************)
C6_Breakpoints ==
  Returned =>
     \A b \in 1..Len(dpa_table) :
        FEq(locals.dpa, dpa_table[b]) =>
           /\ locals.sigma_ut = UT_table[b]
           /\ locals.epsilon_ut = UE_table[b]

C8_Centroid ==
  CentroidComputed =>
     /\ \A a \in 1..3 :
          locals.centroid[a] =
             FDiv(FromInt(HalfSum(Called.connectivity, a, Len(Called.connectivity))),
                  FromInt(2 * Len(Called.connectivity)))
     /\ Called.connectivity = <<0, 1, 2, 3>> =>
          locals.centroid = <<Halves(1), Halves(1), Halves(1)>>

\* the four nodes of the example, and an element whose mean is not a dyadic number
C8_Witness ==
  /\ CentroidComputed
  /\ Called.connectivity = <<0, 1, 2, 3>>
  /\ \E k \in 1..Len(els) : Len(els[k].connectivity) = 3 /\ k < i

(***************************************************************************)
(* C9: a failure of getMaterialProperties on one element ends the run: no  *)
(* later element is processed, the failing element has no table, section   *)
(* or assignment, no job is created, and what was made for the earlier     *)
(* elements stays in the model.                                            *)
(***************************************************************************)
C9_Abort ==
  /\ (CallMade /\ locals.exc # "none") => pc = "aborted"
  /\ pc = "aborted" =>
        /\ exc.type = locals.exc /\ exc.type # "none"
        /\ job = "none"
        /\ ~ENABLED Next
        /\ materials[MaterialName(els[i + 1].label)] = [elastic |-> <<>>, plastic |-> <<>>]
        /\ SectionName(els[i + 1].label) \notin DOMAIN sections
        /\ AssignmentsOf(els[i + 1].label) = {}
        /\ \A k \in (i + 2)..Len(els) :
             /\ MaterialName(els[k].label) \notin DOMAIN materials
             /\ SectionName(els[k].label) \notin DOMAIN sections
             /\ AssignmentsOf(els[k].label) = {}
        /\ \A k \in 1..i : Assigned(k)

\* the second of three elements fails
C9_Witness == pc = "aborted" /\ i = 1 /\ Len(els) = 3

(***************************************************************************)
(* C10, as claimed: the plastic table is a hardening curve whose second    *)
(* point is not below its first: ultimate stress >= yield stress, ultimate *)
(* plastic strain >= 0, and the first point at plastic strain 0.           *)
(***************************************************************************)
C10_Hardening ==
  Returned =>
     /\ locals.plasticProperties[1] = <<locals.sigma_y, FZero>>
     /\ FGe(locals.plasticProperties[2][1], locals.plasticProperties[1][1])
     /\ FGe(locals.plasticProperties[2][2], FZero)

=============================================================================
